---- MODULE Spec2Model ----
(***************************************************************************)
(* Model of the wake-on-lan command line tool (src/main.go): one run of    *)
(* the process from flag parsing to exit, with the operating system's      *)
(* answers (adapter lookup, address enumeration, socket open, write)       *)
(* chosen nondeterministically at the call that asks for them.             *)
(***************************************************************************)
EXTENDS Integers, Sequences, FiniteSets, TLC

VARIABLES
    pc,            \* position of the process in main()
    args,          \* command line still to be parsed by flag.Parse
    programFlags,  \* the global programFlags struct
    exitCode,      \* process exit status, meaningful once pc = "exited"
    adapters,      \* listNetworkAdapters: adapters still to be visited
    lastAddrs,     \* the address list the last Addrs() call returned
    localAddress,  \* result of addressFromNetworkAdapter (NilAddr = nil)
    conn,          \* the UDP connection: state and local endpoint
    payload,       \* the wolPayload handed to sendWOLPayload
    trace          \* library / OS calls made so far, with their outcome

vars == <<pc, args, programFlags, exitCode, adapters, lastAddrs,
          localAddress, conn, payload, trace>>

----------------------------------------------------------------------------
(* Bounds of the model *)

MaxArgs == 2      \* flags on the command line
MaxAddrs == 3     \* addresses bound to one adapter
MaxAdapters == 2  \* adapters net.Interfaces() returns

----------------------------------------------------------------------------
(* Exit codes: const ( _ int = iota + 2; ... ) *)

flagParseError == 2
macAddressNotEUI48Error == 3
macAddressNotInformedError == 4
networkAdapterAddressesFetchingError == 5
networkAdapterFetchingError == 6
networkAdaptersFetchingError == 7
notAllWOLPayloadBytesSentError == 8
udpConnectionError == 9
wolPayloadSendingError == 10

eui48Length == 6
wakeOnLanUDPPort == 7
payloadLength == eui48Length + (16 * eui48Length)

NoExit == 0 - 1   \* "the function returned": no os.Exit was called

----------------------------------------------------------------------------
(* Hardware addresses and their textual form *)

ByteSamples == {0, 170, 255}

\* The text of a -mac-address value: its separator and the octets written.
MacText(sep, octets) == [sep |-> sep, octets |-> octets]

Mac6  == MacText(":", <<170, 187, 204, 221, 238, 255>>)
Mac8  == MacText("-", <<1, 2, 3, 4, 5, 6, 7, 8>>)
Mac20 == MacText(":", <<1, 2, 3, 4, 5, 6, 7, 8, 9, 10,
                        11, 12, 13, 14, 15, 16, 17, 18, 19, 20>>)
Mac5  == MacText(":", <<1, 2, 3, 4, 5>>)
NoMacText == MacText(":", <<>>)

MacTexts == {Mac6, Mac8, Mac20, Mac5}

\* net.ParseMAC: accepts EUI-48, EUI-64 and 20-octet InfiniBand addresses
\* written with ':' or '-'; anything else is an error (nil, err).
ParseMAC(s) ==
    IF s.sep \in {":", "-"} /\ Len(s.octets) \in {6, 8, 20}
    THEN [err |-> FALSE, hw |-> s.octets]
    ELSE [err |-> TRUE, hw |-> <<>>]

\* wolPayload{0xff, 0xff, 0xff, 0xff, 0xff, 0xff}: the rest is zero.
wolPayloadInit == [k \in 0..(payloadLength - 1) |-> IF k < 6 THEN 255 ELSE 0]

NoPayload == <<>>

\* The inner loop, for j := 0; j < eui48Length; j++: eui48Length bytes
\* of macAddress are stored from payloadIndex on.
wolPayloadCopy(p, macAddress, payloadIndex) ==
    [k \in DOMAIN p |->
        IF payloadIndex <= k /\ k < payloadIndex + eui48Length
        THEN macAddress[(k - payloadIndex) + 1]
        ELSE p[k]]

\* The outer loop, for i := 0; i < 16; i++.
RECURSIVE wolPayloadLoop(_, _, _, _)
wolPayloadLoop(p, macAddress, i, payloadIndex) ==
    IF i >= 16 THEN p
    ELSE wolPayloadLoop(wolPayloadCopy(p, macAddress, payloadIndex),
                        macAddress, i + 1, payloadIndex + eui48Length)

\* Mutant: the outer loop stops one repetition early.
createWOLPayloadShort(macAddress) ==
    wolPayloadLoop(wolPayloadInit, macAddress, 1, 6)

createWOLPayload(macAddress) ==
    wolPayloadLoop(wolPayloadInit, macAddress, 0, 6)

----------------------------------------------------------------------------
(* IP addresses, as net.IP byte slices *)

IPv4(a, b, c, d) == <<0, 0, 0, 0, 0, 0, 0, 0, 0, 0, 255, 255, a, b, c, d>>

NoIP == <<>>

\* net.IP.To4: the 4-byte form of an IPv4 address, nil for anything else.
To4(ip) ==
    IF Len(ip) = 4 THEN ip
    ELSE IF Len(ip) = 16
            /\ \A k \in 1..10 : ip[k] = 0
            /\ ip[11] = 255 /\ ip[12] = 255
         THEN SubSeq(ip, 13, 16)
         ELSE NoIP

\* net.IP.IsLoopback on a 4-byte address.
IsLoopback(ip4) == ip4[1] = 127

\* A net.Addr as Interface.Addrs() returns it: *net.IPNet for a unicast
\* address, *net.IPAddr for an anycast address.
IPNet(ip) == [type |-> "IPNet", IP |-> ip]
IPAddr(ip) == [type |-> "IPAddr", IP |-> ip]

AddrSamples ==
    { IPNet(IPv4(127, 0, 0, 1)),
      IPNet(IPv4(192, 168, 1, 10)),
      IPNet(<<10, 0, 0, 5>>),
      IPNet(<<254, 128, 0, 0, 0, 0, 0, 0, 0, 0, 0, 0, 0, 0, 0, 1>>),
      IPAddr(IPv4(192, 168, 1, 77)) }

AddrLists == UNION { [1..n -> AddrSamples] : n \in 0..MaxAddrs }

NilAddr == [isNil |-> TRUE, IP |-> NoIP, Port |-> 0]
UDPAddr(ip, port) == [isNil |-> FALSE, IP |-> ip, Port |-> port]

RECURSIVE addressLoop(_, _)
addressLoop(networkAdapterAddresses, k) ==
    IF k > Len(networkAdapterAddresses) THEN NilAddr
    ELSE LET a == networkAdapterAddresses[k]
             ipv4 == To4(a.IP)
         IN  IF a.type = "IPNet"
             THEN IF ipv4 = NoIP \/ IsLoopback(ipv4)
                  THEN addressLoop(networkAdapterAddresses, k + 1)
                  ELSE UDPAddr(ipv4, wakeOnLanUDPPort)
             ELSE addressLoop(networkAdapterAddresses, k + 1)

\* Mutant: the loopback test is missing.
addressLoopback(networkAdapterAddresses) ==
    LET hits == { k \in 1..Len(networkAdapterAddresses) :
                    /\ networkAdapterAddresses[k].type = "IPNet"
                    /\ To4(networkAdapterAddresses[k].IP) # NoIP }
    IN  IF hits = {} THEN NilAddr
        ELSE UDPAddr(To4(networkAdapterAddresses[
                 CHOOSE k \in hits : \A m \in hits : k <= m].IP),
                 wakeOnLanUDPPort)

\* addressFromNetworkAdapter, after Addrs() succeeded.
addressFromNetworkAdapter(networkAdapterAddresses) ==
    addressLoop(networkAdapterAddresses, 1)

----------------------------------------------------------------------------
(* The command line and flag.Parse *)

NoFlags == [listNetworkAdapters |-> FALSE,
            macAddress |-> <<>>,
            networkAdapterName |-> ""]

Arg(flag, on, mac, name) == [flag |-> flag, on |-> on, mac |-> mac, name |-> name]

AdapterNames == {"eth0", "lo"}

ArgSamples ==
    { Arg("list-network-adapters", TRUE, NoMacText, ""),
      Arg("h", FALSE, NoMacText, ""),
      Arg("bogus", FALSE, NoMacText, "") }
    \cup { Arg("mac-address", FALSE, m, "") : m \in MacTexts }
    \cup { Arg("network-adapter-name", FALSE, NoMacText, n) : n \in AdapterNames }

ArgLists == UNION { [1..n -> ArgSamples] : n \in 0..MaxArgs }

Event(op, err, n) == [op |-> op, err |-> err, n |-> n]

\* parseMACAddressFlag: programFlags.macAddress, err = net.ParseMAC(...)
parseMACAddressFlag(flags, macAddress) ==
    LET r == ParseMAC(macAddress)
    IN  [flags |-> [flags EXCEPT !.macAddress = r.hw], err |-> r.err]

\* flag.Parse on flag.CommandLine (ExitOnError): the flags are set in
\* command line order; -h prints the usage and exits 0, any other error
\* (an undefined flag, a value the flag's function rejects) exits 2.
RECURSIVE flagParse(_, _, _)
flagParse(as, flags, tr) ==
    IF as = <<>> THEN [flags |-> flags, trace |-> tr, exit |-> NoExit]
    ELSE LET a == Head(as) IN
         CASE a.flag = "h" ->
                [flags |-> flags, trace |-> tr, exit |-> 0]
           [] a.flag = "bogus" ->
                [flags |-> flags, trace |-> tr, exit |-> flagParseError]
           [] a.flag = "list-network-adapters" ->
                flagParse(Tail(as),
                          [flags EXCEPT !.listNetworkAdapters = a.on], tr)
           [] a.flag = "network-adapter-name" ->
                flagParse(Tail(as),
                          [flags EXCEPT !.networkAdapterName = a.name], tr)
           [] a.flag = "mac-address" ->
                LET r == parseMACAddressFlag(flags, a.mac)
                    t == Append(tr, Event("ParseMAC", r.err, 0))
                IN  IF r.err
                    THEN [flags |-> r.flags, trace |-> t,
                          exit |-> flagParseError]
                    ELSE flagParse(Tail(as), r.flags, t)

\* Mutant: the length test is missing.
checkParsedMACAddressNoLength(flags) ==
    IF flags.listNetworkAdapters THEN NoExit
    ELSE IF flags.macAddress = <<>> THEN macAddressNotInformedError
    ELSE NoExit

\* checkParsedMACAddress: the exit code, or NoExit when it returns.
checkParsedMACAddress(flags) ==
    IF flags.listNetworkAdapters THEN NoExit
    ELSE IF flags.macAddress = <<>> THEN macAddressNotInformedError
    ELSE IF Len(flags.macAddress) # eui48Length THEN macAddressNotEUI48Error
    ELSE NoExit

\* Mutant: listing also wakes the remote computer.
mainAlwaysWakes(flags) == "wakeRemoteComputer"

\* main: the branch taken after parseProgramFlags.
mainBranch(flags) ==
    IF flags.listNetworkAdapters THEN "listNetworkAdapters"
    ELSE "wakeRemoteComputer"

----------------------------------------------------------------------------
(* The send path's decisions *)

\* net.InterfaceByName: the empty name is rejected before the system is
\* asked; any other name is found or not, as the system has it.
InterfaceByNameErr(networkAdapterName, present) ==
    networkAdapterName = "" \/ ~present

\* Mutant: a failed dial is not noticed.
openUDPConnectionIgnoresErr(err) == NoExit

\* openUDPConnection: the exit code after net.DialUDP, or NoExit.
openUDPConnectionExit(err) ==
    IF err THEN udpConnectionError ELSE NoExit

\* Mutant: a short write counts as sent.
sendWOLPayloadAnyCount(bytesWritten, err) ==
    IF err THEN wolPayloadSendingError ELSE NoExit

\* Mutant: a write error is reported with the partial-send code.
sendWOLPayloadOneCode(bytesWritten, err) ==
    IF err THEN notAllWOLPayloadBytesSentError
    ELSE IF bytesWritten = payloadLength THEN NoExit
    ELSE notAllWOLPayloadBytesSentError

\* sendWOLPayload: the exit code after udpConnection.Write, or NoExit.
sendWOLPayload(bytesWritten, err) ==
    IF err THEN wolPayloadSendingError
    ELSE IF bytesWritten = payloadLength THEN NoExit
    ELSE notAllWOLPayloadBytesSentError

\* Mutant: the deferred call is lost.
closeUDPConnectionNoop(udpConnection) == udpConnection

\* closeUDPConnection: udpConnection.Close()
closeUDPConnection(udpConnection) ==
    [udpConnection EXCEPT !.state = "closed"]

\* &net.UDPAddr{IP: net.IP{255, 255, 255, 255}, Port: wakeOnLanUDPPort}
remoteAddress == UDPAddr(<<255, 255, 255, 255>>, wakeOnLanUDPPort)

NoConn == [state |-> "none", local |-> NilAddr, remote |-> NilAddr]

WriteCounts == {0, 1, payloadLength - 1, payloadLength}

AdapterLists == UNION { [1..n -> AdapterNames] : n \in 0..MaxAdapters }

----------------------------------------------------------------------------
(* The process *)

Init ==
    /\ pc = "parseProgramFlags"
    /\ args \in ArgLists
    /\ programFlags = NoFlags
    /\ exitCode = NoExit
    /\ adapters = <<>>
    /\ lastAddrs = <<>>
    /\ localAddress = NilAddr
    /\ conn = NoConn
    /\ payload = NoPayload
    /\ trace = <<>>

\* os.Exit(code), or main returning (code 0).
Exit(code) ==
    /\ pc' = "exited"
    /\ exitCode' = code

\* parseProgramFlags, then main's branch.  The command line itself
\* (os.Args) stays as it was given.
ParseProgramFlags ==
    /\ pc = "parseProgramFlags"
    /\ LET r == flagParse(args, programFlags, trace)
           c == checkParsedMACAddress(r.flags)
       IN  /\ programFlags' = r.flags
           /\ IF r.exit # NoExit
              THEN /\ trace' = r.trace
                   /\ Exit(r.exit)
              ELSE /\ trace' = Append(r.trace,
                                Event("checkParsedMACAddress", c # NoExit, 0))
                   /\ IF c # NoExit THEN Exit(c)
                      ELSE /\ pc' = mainBranch(r.flags)
                           /\ exitCode' = exitCode
    /\ UNCHANGED <<args, adapters, lastAddrs, localAddress, conn, payload>>

\* openUDPConnection, first half: addressFromNetworkAdapterName, with
\* the system's answers to InterfaceByName and Addrs.
AddressFromNetworkAdapterName ==
    /\ pc = "wakeRemoteComputer"
    /\ \E present \in BOOLEAN :
         LET nameErr == InterfaceByNameErr(programFlags.networkAdapterName,
                                           present)
             t1 == Append(trace, Event("InterfaceByName", nameErr, 0))
         IN  IF nameErr
             THEN /\ trace' = t1
                  /\ Exit(networkAdapterFetchingError)
                  /\ UNCHANGED localAddress
             ELSE \/ /\ trace' = Append(t1, Event("Addrs", TRUE, 0))
                     /\ Exit(networkAdapterAddressesFetchingError)
                     /\ UNCHANGED localAddress
                  \/ \E addrs \in AddrLists :
                       /\ trace' = Append(t1, Event("Addrs", FALSE, 0))
                       /\ localAddress' = addressFromNetworkAdapter(addrs)
                       /\ pc' = "DialUDP"
                       /\ exitCode' = exitCode
    /\ UNCHANGED <<args, programFlags, adapters, lastAddrs, conn, payload>>

\* openUDPConnection, second half: net.DialUDP("udp4", local, remote).
DialUDP ==
    /\ pc = "DialUDP"
    /\ \E err \in BOOLEAN :
         LET c == openUDPConnectionExit(err)
         IN  /\ trace' = Append(trace, Event("DialUDP", err, 0))
             /\ IF c # NoExit
                THEN /\ Exit(c)
                     /\ conn' = conn
                ELSE /\ conn' = [state |-> IF err THEN "invalid" ELSE "open",
                                 local |-> localAddress,
                                 remote |-> remoteAddress]
                     /\ pc' = "sendWOLPayload"
                     /\ exitCode' = exitCode
    /\ UNCHANGED <<args, programFlags, adapters, lastAddrs, localAddress,
                   payload>>

\* sendWOLPayload(udpConnection, createWOLPayload())
SendWOLPayload ==
    /\ pc = "sendWOLPayload"
    /\ payload' = createWOLPayload(programFlags.macAddress)
    /\ \E err \in BOOLEAN, bytesWritten \in WriteCounts :
         LET c == sendWOLPayload(bytesWritten, err)
         IN  /\ trace' = Append(Append(trace,
                             Event("createWOLPayload", FALSE, 0)),
                             Event("Write", err, bytesWritten))
             /\ IF c # NoExit THEN Exit(c)
                ELSE /\ pc' = "return"
                     /\ exitCode' = exitCode
    /\ UNCHANGED <<args, programFlags, adapters, lastAddrs, localAddress,
                   conn>>

\* wakeRemoteComputer returns: the deferred closeUDPConnection runs, then
\* main returns.
WakeReturn ==
    /\ pc = "return"
    /\ conn' = closeUDPConnection(conn)
    /\ trace' = Append(trace, Event("Close", FALSE, 0))
    /\ Exit(0)
    /\ UNCHANGED <<args, programFlags, adapters, lastAddrs, localAddress,
                   payload>>

\* listNetworkAdapters: net.Interfaces()
Interfaces ==
    /\ pc = "listNetworkAdapters"
    /\ \E err \in BOOLEAN, list \in AdapterLists :
         /\ trace' = Append(trace, Event("Interfaces", err, 0))
         /\ IF err
            THEN /\ Exit(networkAdaptersFetchingError)
                 /\ adapters' = adapters
            ELSE /\ adapters' = list
                 /\ pc' = "listLoop"
                 /\ exitCode' = exitCode
    /\ UNCHANGED <<args, programFlags, lastAddrs, localAddress, conn, payload>>

\* listNetworkAdapters: one turn of the loop over the adapters.
ListLoop ==
    /\ pc = "listLoop"
    /\ adapters # <<>>
    /\ \/ /\ trace' = Append(trace, Event("Addrs", TRUE, 0))
          /\ Exit(networkAdapterAddressesFetchingError)
          /\ UNCHANGED <<adapters, localAddress>>
       \/ \E addrs \in AddrLists :
            LET a == addressFromNetworkAdapter(addrs)
                t1 == Append(trace, Event("Addrs", FALSE, 0))
            IN  /\ localAddress' = a
                /\ trace' = IF a.isNil THEN t1
                            ELSE Append(t1, Event("Printf", FALSE, 0))
                /\ adapters' = Tail(adapters)
                /\ UNCHANGED <<pc, exitCode>>
    /\ UNCHANGED <<args, programFlags, lastAddrs, conn, payload>>

\* listNetworkAdapters and main return.
ListReturn ==
    /\ pc = "listLoop"
    /\ adapters = <<>>
    /\ Exit(0)
    /\ UNCHANGED <<args, programFlags, adapters, lastAddrs, localAddress,
                   conn, payload, trace>>

Next ==
    \/ ParseProgramFlags
    \/ AddressFromNetworkAdapterName
    \/ DialUDP
    \/ SendWOLPayload
    \/ WakeReturn
    \/ Interfaces
    \/ ListLoop
    \/ ListReturn

Spec == Init /\ [][Next]_vars

----------------------------------------------------------------------------
(* createWOLPayload on its own: every 6-byte address over ByteSamples *)

HardwareAddrs == [1..eui48Length -> ByteSamples]

PayloadInit ==
    /\ pc = "sendWOLPayload"
    /\ args = <<>>
    /\ programFlags \in { [NoFlags EXCEPT !.macAddress = m] : m \in HardwareAddrs }
    /\ exitCode = NoExit
    /\ adapters = <<>>
    /\ lastAddrs = <<>>
    /\ localAddress = NilAddr
    /\ conn = [state |-> "open", local |-> NilAddr, remote |-> remoteAddress]
    /\ payload = NoPayload
    /\ trace = <<>>

CreateWOLPayload ==
    /\ pc = "sendWOLPayload"
    /\ payload' = createWOLPayload(programFlags.macAddress)
    /\ pc' = "Write"
    /\ UNCHANGED <<args, programFlags, exitCode, adapters, lastAddrs,
                   localAddress, conn, trace>>

PayloadNext == CreateWOLPayload

SpecPayload == PayloadInit /\ [][PayloadNext]_vars

----------------------------------------------------------------------------
(* addressFromNetworkAdapter on its own: every address list in AddrLists *)

ResolverInit ==
    /\ pc = "addressFromNetworkAdapter"
    /\ args = <<>>
    /\ programFlags = NoFlags
    /\ exitCode = NoExit
    /\ adapters = <<>>
    /\ lastAddrs \in AddrLists
    /\ localAddress = NilAddr
    /\ conn = NoConn
    /\ payload = NoPayload
    /\ trace = <<>>

AddressFromNetworkAdapter ==
    /\ pc = "addressFromNetworkAdapter"
    /\ localAddress' = addressFromNetworkAdapter(lastAddrs)
    /\ pc' = "resolved"
    /\ UNCHANGED <<args, programFlags, exitCode, adapters, lastAddrs,
                   conn, payload, trace>>

ResolverNext == AddressFromNetworkAdapter

SpecResolver == ResolverInit /\ [][ResolverNext]_vars

----------------------------------------------------------------------------
(* Reading the run so far *)

Events(op) == { i \in 1..Len(trace) : trace[i].op = op }
Has(op) == Events(op) # {}
HasErr(op) == \E i \in Events(op) : trace[i].err
HasOk(op) == \E i \in Events(op) : ~trace[i].err
Given(flag) == \E i \in 1..Len(args) : args[i].flag = flag
Parsed == pc # "parseProgramFlags"
Exited == pc = "exited"

\* An IPv4 address, in 4-byte or in IPv4-mapped 16-byte form.
IsIPv4(ip) ==
    \/ Len(ip) = 4
    \/ /\ Len(ip) = 16
       /\ SubSeq(ip, 1, 12) = <<0, 0, 0, 0, 0, 0, 0, 0, 0, 0, 255, 255>>
Octets(ip) == IF Len(ip) = 4 THEN ip ELSE <<ip[13], ip[14], ip[15], ip[16]>>
Usable(a) == IsIPv4(a.IP) /\ Octets(a.IP)[1] # 127
First(S) == CHOOSE k \in S : \A m \in S : k <= m

----------------------------------------------------------------------------
(* C1: for every 6-byte address A, createWOLPayload returns 102 bytes:     *)
(* bytes 0..5 are 0xFF and bytes 6+6k .. 6+6k+5 are A[0..5], for every k   *)
(* in 0..15, so that no byte is left at any other value.                   *)
C1_PayloadLayout ==
    pc = "Write" =>
        LET A == programFlags.macAddress
        IN  /\ DOMAIN payload = 0..101
            /\ \A k \in 0..5 : payload[k] = 255
            /\ \A k \in 0..15 : \A j \in 0..5 : payload[6 + 6 * k + j] = A[j + 1]

C1_Witness ==
    /\ pc = "Write"
    /\ programFlags.macAddress = <<0, 170, 255, 255, 170, 0>>
    /\ payload[96] = 0 /\ payload[97] = 170 /\ payload[98] = 255

(* C2: createWOLPayload is reached only with a parsed address of length 6; *)
(* a missing address or one of another length ends the run in             *)
(* checkParsedMACAddress (or earlier, in flag.Parse) before any adapter    *)
(* lookup, socket or payload; list mode never reaches the builder.         *)
C2_BuilderOnlyWithEUI48 ==
    /\ Has("createWOLPayload") =>
          /\ Len(programFlags.macAddress) = 6
          /\ ~programFlags.listNetworkAdapters
    /\ payload # NoPayload => Len(programFlags.macAddress) = 6
    /\ (Parsed /\ ~programFlags.listNetworkAdapters
               /\ Len(programFlags.macAddress) # 6) =>
          /\ Exited
          /\ exitCode \in {0, flagParseError, macAddressNotInformedError,
                           macAddressNotEUI48Error}
          /\ Has("checkParsedMACAddress") =>
                exitCode = IF programFlags.macAddress = <<>>
                           THEN macAddressNotInformedError
                           ELSE macAddressNotEUI48Error
          /\ ~Has("InterfaceByName") /\ ~Has("DialUDP")
          /\ conn = NoConn /\ payload = NoPayload
    /\ programFlags.listNetworkAdapters =>
          ~Has("createWOLPayload") /\ payload = NoPayload

C2_Witness ==
    /\ Exited
    /\ exitCode = macAddressNotEUI48Error
    /\ Len(programFlags.macAddress) = 20
    /\ conn = NoConn /\ payload = NoPayload

(* C3: without -network-adapter-name and with a valid 6-byte address, no   *)
(* adapter lookup is made or fails, and the run does not end with the      *)
(* adapter-lookup-failure exit code.                                       *)
C3_NoLookupWithoutName ==
    (/\ Parsed
     /\ ~Given("network-adapter-name")
     /\ ~programFlags.listNetworkAdapters
     /\ Len(programFlags.macAddress) = 6) =>
        /\ ~Has("InterfaceByName")
        /\ ~(Exited /\ exitCode = networkAdapterFetchingError)

(* C4, as claimed: once the socket was opened, closeUDPConnection has run  *)
(* on it when the process has terminated, whatever the write's outcome.    *)
C4_ClosedWhateverTheWrite ==
    (Exited /\ HasOk("DialUDP")) => (conn.state = "closed" /\ Has("Close"))

(* C4, amended: once the socket was opened, closeUDPConnection has run on  *)
(* it when the process has terminated if and only if the write returned    *)
(* no error and 102 bytes; after a write error or a partial write the      *)
(* process exits with the socket still open.                               *)
C4_ClosedAfterFullWrite ==
    (Exited /\ HasOk("DialUDP")) =>
        /\ (conn.state = "closed" /\ Has("Close"))
              <=> (\E i \in Events("Write") : ~trace[i].err /\ trace[i].n = 102)
        /\ conn.state \in {"open", "closed"}

C4_Witness ==
    /\ Exited
    /\ HasOk("DialUDP")
    /\ \E i \in Events("Write") : ~trace[i].err /\ trace[i].n = 102
    /\ conn.state = "closed"

(* C5: each fatal condition ends the run with its own exit code; the nine  *)
(* codes are pairwise distinct and non-zero; a run exits 0 only if none of *)
(* the conditions occurred.                                                *)
Unparseable == HasErr("ParseMAC")
MissingAddress ==
    /\ Has("checkParsedMACAddress")
    /\ ~programFlags.listNetworkAdapters
    /\ programFlags.macAddress = <<>>
WrongLength ==
    /\ Has("checkParsedMACAddress")
    /\ ~programFlags.listNetworkAdapters
    /\ Len(programFlags.macAddress) \notin {0, 6}
PartialSend == \E i \in Events("Write") : ~trace[i].err /\ trace[i].n # 102

FatalCodes ==
    {flagParseError, macAddressNotInformedError, macAddressNotEUI48Error,
     networkAdapterFetchingError, networkAdaptersFetchingError,
     networkAdapterAddressesFetchingError, udpConnectionError,
     wolPayloadSendingError, notAllWOLPayloadBytesSentError}

C5_OwnExitCodes ==
    /\ Cardinality(FatalCodes) = 9
    /\ 0 \notin FatalCodes
    /\ Exited =>
        /\ Unparseable => exitCode = flagParseError
        /\ MissingAddress => exitCode = macAddressNotInformedError
        /\ WrongLength => exitCode = macAddressNotEUI48Error
        /\ HasErr("InterfaceByName") => exitCode = networkAdapterFetchingError
        /\ HasErr("Interfaces") => exitCode = networkAdaptersFetchingError
        /\ HasErr("Addrs") => exitCode = networkAdapterAddressesFetchingError
        /\ HasErr("DialUDP") => exitCode = udpConnectionError
        /\ HasErr("Write") => exitCode = wolPayloadSendingError
        /\ PartialSend => exitCode = notAllWOLPayloadBytesSentError
        /\ exitCode = 0 =>
              ~(\/ Unparseable \/ MissingAddress \/ WrongLength
                \/ HasErr("InterfaceByName") \/ HasErr("Interfaces")
                \/ HasErr("Addrs") \/ HasErr("DialUDP") \/ HasErr("Write")
                \/ PartialSend)

C5_Witness ==
    /\ Exited
    /\ HasErr("Write")
    /\ exitCode = wolPayloadSendingError

(* C6, as claimed: addressFromNetworkAdapter returns the first enumerated  *)
(* address that is IPv4 and outside 127.0.0.0/8, with port 7, and nil      *)
(* exactly when the adapter has no such address.                           *)
C6_FirstUsableAddress ==
    pc = "resolved" =>
        LET hits == { k \in 1..Len(lastAddrs) : Usable(lastAddrs[k]) }
        IN  IF hits = {} THEN localAddress = NilAddr
            ELSE localAddress = UDPAddr(Octets(lastAddrs[First(hits)].IP), 7)

(* C6, amended: addressFromNetworkAdapter returns the first enumerated     *)
(* net.IPNet entry whose address is IPv4 and outside 127.0.0.0/8, with     *)
(* port 7, whatever precedes it, and nil exactly when the adapter has no   *)
(* such entry; entries of another type (net.IPAddr) are passed over.       *)
C6_FirstUsableIPNet ==
    pc = "resolved" =>
        LET hits == { k \in 1..Len(lastAddrs) :
                        lastAddrs[k].type = "IPNet" /\ Usable(lastAddrs[k]) }
        IN  IF hits = {} THEN localAddress = NilAddr
            ELSE localAddress = UDPAddr(Octets(lastAddrs[First(hits)].IP), 7)

C6_Witness ==
    /\ pc = "resolved"
    /\ lastAddrs = << IPNet(IPv4(127, 0, 0, 1)),
                      IPNet(<<254, 128, 0, 0, 0, 0, 0, 0, 0, 0, 0, 0, 0, 0, 0, 1>>),
                      IPNet(IPv4(192, 168, 1, 10)) >>
    /\ localAddress = UDPAddr(<<192, 168, 1, 10>>, 7)

(* C7: the send is successful if and only if the write returned no error   *)
(* and 102 bytes; a write error exits with the send-failure code, another  *)
(* count without error with the partial-send code; the write is never      *)
(* repeated.                                                               *)
C7_SendOutcome ==
    \A i \in Events("Write") :
        /\ Cardinality(Events("Write")) = 1
        /\ (~trace[i].err /\ trace[i].n = 102) <=>
              (pc = "return" \/ (Exited /\ exitCode = 0))
        /\ trace[i].err <=> (Exited /\ exitCode = wolPayloadSendingError)
        /\ (~trace[i].err /\ trace[i].n # 102) <=>
              (Exited /\ exitCode = notAllWOLPayloadBytesSentError)

C7_Witness ==
    /\ Exited
    /\ exitCode = notAllWOLPayloadBytesSentError
    /\ \E i \in Events("Write") : ~trace[i].err /\ trace[i].n = 101

(* C8: with -list-network-adapters on the command line no socket is        *)
(* opened, no payload built and nothing written, and the run does not end  *)
(* with the missing-address or wrong-length code, address given or not.    *)
C8_ListingSendsNothing ==
    (Given("list-network-adapters") /\ Parsed) =>
        /\ ~Has("DialUDP") /\ ~Has("createWOLPayload") /\ ~Has("Write")
        /\ ~Has("InterfaceByName")
        /\ conn = NoConn /\ payload = NoPayload
        /\ Exited => exitCode \notin {macAddressNotInformedError,
                                      macAddressNotEUI48Error}

C8_Witness ==
    /\ Given("list-network-adapters")
    /\ ~Given("mac-address")
    /\ Exited /\ exitCode = 0
    /\ Has("Printf")
    /\ conn = NoConn /\ payload = NoPayload

(* C9: when the named adapter is found and has no non-loopback IPv4        *)
(* address, no socket is opened with an unspecified local endpoint and no  *)
(* payload is written.                                                     *)
C9_NoSendWithoutAddress ==
    (/\ ~programFlags.listNetworkAdapters
     /\ HasOk("InterfaceByName") /\ HasOk("Addrs")
     /\ localAddress.isNil) =>
        /\ ~Has("DialUDP")
        /\ conn.state = "none"
        /\ ~Has("Write")

(* C10: in send mode the steps are resolve, open to 255.255.255.255:7,     *)
(* write, close, in this order: no write before a successful open, no      *)
(* close before the write, at most one write, and a failed step is the     *)
(* last step of the run.                                                   *)
SendSteps == {"InterfaceByName", "DialUDP", "createWOLPayload", "Write", "Close"}

C10_SendOrder ==
    /\ \A op \in SendSteps : Cardinality(Events(op)) <= 1
    /\ ~programFlags.listNetworkAdapters => Cardinality(Events("Addrs")) <= 1
    /\ \A i \in Events("DialUDP") :
          /\ \E j \in Events("InterfaceByName") : j < i /\ ~trace[j].err
          /\ \E j \in Events("Addrs") : j < i /\ ~trace[j].err
    /\ \A i \in Events("Write") :
          \E j \in Events("DialUDP") : j < i /\ ~trace[j].err
    /\ \A i \in Events("Close") :
          \E j \in Events("Write") : j < i /\ ~trace[j].err /\ trace[j].n = 102
    /\ conn.state # "none" => conn.remote = UDPAddr(<<255, 255, 255, 255>>, 7)
    /\ Has("Write") => conn.state \in {"open", "closed"}
    /\ \A i \in 1..Len(trace) :
          (trace[i].err \/ (trace[i].op = "Write" /\ trace[i].n # 102)) =>
              (i = Len(trace) /\ Exited /\ exitCode # 0)

C10_Witness ==
    /\ Exited /\ exitCode = 0
    /\ Len(trace) = 8
    /\ [i \in 1..6 |-> trace[i + 2].op] =
          <<"InterfaceByName", "Addrs", "DialUDP", "createWOLPayload",
            "Write", "Close">>
    /\ conn.state = "closed"

====
